---- MODULE Spec2Model ----
(***************************************************************************)
(* Keyed Haraka-512 (regolith-labs/haraka-bpf): a state machine of the     *)
(* calls of haraka512_keyed, statement by statement, over real 64-byte     *)
(* buffers and 128-bit lanes.                                              *)
(*                                                                         *)
(* haraka512_keyed.rs imports aes_mix4, truncstore (haraka512.rs),         *)
(* Simd128 (simd128.rs) and, through them, the round-constant table        *)
(* (constants.rs).  Those files are modelled from the design document:     *)
(* the standard AES encryption round, the Haraka-512 mix and truncation.   *)
(* A lane is held as eight 16-bit limbs, least significant first, because  *)
(* the model's integers are narrower than 128 bits.                        *)
(***************************************************************************)
EXTENDS Integers, Sequences, FiniteSets, TLC

----------------------------------------------------------------------------
(* Bounds of the model *)

\* Largest N_ROUNDS a call is instantiated with (one above the keyed limit).
MaxRounds == 6
\* Number of callers (threads).
NumCallers == 2
\* Largest N_ROUNDS of the calls that run concurrently.
ConcMaxRounds == 2

(* Program constants *)

\* Length of HARAKA_CONSTANTS.
TableLen == 48
\* The round limit asserted by haraka512_keyed.
KeyedRoundLimit == 5
\* Constants consumed by one application of the round function.
ConstsPerRound == 8

----------------------------------------------------------------------------
(* Bytes and bitwise XOR *)

\* A function on 1..n as a sequence, its elements evaluated once.
Seq_(f) == f \o <<>>

\* The element of a singleton.  Only({F(v) : v \in {e}}) is F(e) with e
\* evaluated once, before F.
Only(S) == CHOOSE v \in S : TRUE

Byte == 0..255

RECURSIVE XorBits(_, _, _)
XorBits(a, b, n) ==
    IF n = 0 THEN 0
    ELSE ((a + b) % 2) + 2 * XorBits(a \div 2, b \div 2, n - 1)

XorTable == [a \in Byte |-> [b \in Byte |-> XorBits(a, b, 8)]]

Xor8(a, b) == XorTable[a][b]

Xor16(x, y) == Xor8(x % 256, y % 256) + 256 * Xor8(x \div 256, y \div 256)

\* Byte-wise XOR of two buffers of the same length.
XorBytes(a, b) == Seq_([j \in 1..Len(a) |-> Xor8(a[j], b[j])])

----------------------------------------------------------------------------
(* Simd128: the lane primitive *)

\* array_ref![buf, off, 16]
array_ref(buf, off) == SubSeq(buf, off + 1, off + 16)

\* Simd128::read: 16 bytes, little-endian, as eight 16-bit limbs.
Simd128_read(b) == Seq_([h \in 1..8 |-> b[2 * h - 1] + 256 * b[2 * h]])

\* Simd128::write: the inverse of read.
Simd128_write(x) ==
    Seq_([j \in 1..16 |->
            IF j % 2 = 1 THEN x[(j + 1) \div 2] % 256 ELSE x[j \div 2] \div 256])

\* Simd128::pxor(&mut a, &b): a ^= b.
pxor(a, b) == Seq_([h \in 1..8 |-> Xor16(a[h], b[h])])

ZeroLane == Seq_([h \in 1..8 |-> 0])

\* The AES S-box.
SBOX ==
  <<
      99, 124, 119, 123, 242, 107, 111, 197,  48,   1, 103,  43, 254, 215, 171, 118,
     202, 130, 201, 125, 250,  89,  71, 240, 173, 212, 162, 175, 156, 164, 114, 192,
     183, 253, 147,  38,  54,  63, 247, 204,  52, 165, 229, 241, 113, 216,  49,  21,
       4, 199,  35, 195,  24, 150,   5, 154,   7,  18, 128, 226, 235,  39, 178, 117,
       9, 131,  44,  26,  27, 110,  90, 160,  82,  59, 214, 179,  41, 227,  47, 132,
      83, 209,   0, 237,  32, 252, 177,  91, 106, 203, 190,  57,  74,  76,  88, 207,
     208, 239, 170, 251,  67,  77,  51, 133,  69, 249,   2, 127,  80,  60, 159, 168,
      81, 163,  64, 143, 146, 157,  56, 245, 188, 182, 218,  33,  16, 255, 243, 210,
     205,  12,  19, 236,  95, 151,  68,  23, 196, 167, 126,  61, 100,  93,  25, 115,
      96, 129,  79, 220,  34,  42, 144, 136,  70, 238, 184,  20, 222,  94,  11, 219,
     224,  50,  58,  10,  73,   6,  36,  92, 194, 211, 172,  98, 145, 149, 228, 121,
     231, 200,  55, 109, 141, 213,  78, 169, 108,  86, 244, 234, 101, 122, 174,   8,
     186, 120,  37,  46,  28, 166, 180, 198, 232, 221, 116,  31,  75, 189, 139, 138,
     112,  62, 181, 102,  72,   3, 246,  14,  97,  53,  87, 185, 134, 193,  29, 158,
     225, 248, 152,  17, 105, 217, 142, 148, 155,  30, 135, 233, 206,  85,  40, 223,
     140, 161, 137,  13, 191, 230,  66, 104,  65, 153,  45,  15, 176,  84, 187,  22  >>

SubByte(x) == SBOX[x + 1]

\* Multiplication by 2 in GF(2^8) modulo x^8 + x^4 + x^3 + x + 1.
XTime(x) == IF x < 128 THEN 2 * x ELSE Xor8((2 * x) % 256, 27)

\* SubBytes then ShiftRows on the column-major 4x4 byte matrix: the byte in
\* row r of column c comes from column (c + r) mod 4.
SubShift(b) ==
    Seq_([j \in 1..16 |->
            LET r == (j - 1) % 4
                c == (j - 1) \div 4
            IN  SubByte(b[r + 4 * ((c + r) % 4) + 1])])

\* MixColumns: each column is multiplied by the circulant matrix (2 3 1 1).
MixColumns(b) ==
    Seq_([j \in 1..16 |->
            LET c  == 4 * ((j - 1) \div 4)
                r  == (j - 1) % 4
                a0 == b[c + r + 1]
                a1 == b[c + ((r + 1) % 4) + 1]
                a2 == b[c + ((r + 2) % 4) + 1]
                a3 == b[c + ((r + 3) % 4) + 1]
            IN  Xor8(Xor8(XTime(a0), Xor8(XTime(a1), a1)), Xor8(a2, a3))])

\* Simd128::aesenc(&mut s, &rk): one AES encryption round, then the round key.
aesenc(x, rk) ==
    Only({ pxor(Simd128_read(m), rk) :
             m \in { MixColumns(sb) : sb \in { SubShift(b) : b \in {Simd128_write(x)} } } })

\* The 32-bit word w of a lane, as its two limbs.
Word(x, w) == <<x[2 * w + 1], x[2 * w + 2]>>

FromWords(w0, w1, w2, w3) == w0 \o w1 \o w2 \o w3

\* Simd128::unpacklo_epi32 / unpackhi_epi32: interleave the low (high) words.
unpacklo_epi32(a, b) == FromWords(Word(a, 0), Word(b, 0), Word(a, 1), Word(b, 1))
unpackhi_epi32(a, b) == FromWords(Word(a, 2), Word(b, 2), Word(a, 3), Word(b, 3))

----------------------------------------------------------------------------
(* The round-constant table *)

\* One table entry.  constants.rs is not among the files modelled, so the
\* entries are fixed stand-in values; the table's length and the indices the
\* rounds read are what the properties below are about.
RoundConstant(n) == Seq_([h \in 1..8 |-> ((8 * n + h) * 40503) % 65536])

RoundConstants == Seq_([n \in 1..TableLen |-> RoundConstant(n - 1)])

----------------------------------------------------------------------------
(* haraka512.rs: the round function, truncation, the unkeyed permutation *)

\* The constant indices one lane reads in a round that starts at c.
LaneConstIdx(c, lane) == <<c + 2 * lane, c + 2 * lane + 1>>

\* All eight, in the order they are read.
RoundConstIdx(c) ==
    LaneConstIdx(c, 0) \o LaneConstIdx(c, 1) \o LaneConstIdx(c, 2) \o LaneConstIdx(c, 3)

\* Two AES rounds on one lane.
aes2(rc, x, c, lane) ==
    Only({ aesenc(a, rc[LaneConstIdx(c, lane)[2] + 1]) :
             a \in { aesenc(x, rc[LaneConstIdx(c, lane)[1] + 1]) } })

\* The Haraka-512 mix of the four lanes.
mix4(a) ==
    LET tmp == unpacklo_epi32(a[1], a[2])
        x0  == unpackhi_epi32(a[1], a[2])
        x1  == unpacklo_epi32(a[3], a[4])
        x2  == unpackhi_epi32(a[3], a[4])
    IN  << unpackhi_epi32(x0, x2),
           unpacklo_epi32(x1, tmp),
           unpackhi_epi32(x1, tmp),
           unpacklo_epi32(x0, x2) >>

\* aes_mix4(&mut s0, &mut s1, &mut s2, &mut s3, c) over the table rc.
aes_mix4(rc, a, c) ==
    Only({ mix4(b) :
             b \in { << aes2(rc, a[1], c, 0), aes2(rc, a[2], c, 1),
                        aes2(rc, a[3], c, 2), aes2(rc, a[4], c, 3) >> } })

\* truncstore(dst, &s0, &s1, &s2, &s3): the high halves of lanes 0 and 1, then
\* the low halves of lanes 2 and 3.
truncstore(a) ==
    SubSeq(Simd128_write(a[1]), 9, 16) \o SubSeq(Simd128_write(a[2]), 9, 16) \o
    SubSeq(Simd128_write(a[3]), 1, 8)  \o SubSeq(Simd128_write(a[4]), 1, 8)

\* Variant: the first two lanes are read from each other's offset.
LanesSwapped(buf) ==
    << Simd128_read(array_ref(buf, 16)), Simd128_read(array_ref(buf, 0)),
       Simd128_read(array_ref(buf, 32)), Simd128_read(array_ref(buf, 48)) >>

\* The four lanes of a 64-byte buffer, read at offsets 0, 16, 32, 48.
Lanes(buf) ==
    << Simd128_read(array_ref(buf, 0)),  Simd128_read(array_ref(buf, 16)),
       Simd128_read(array_ref(buf, 32)), Simd128_read(array_ref(buf, 48)) >>

\* R^n: n applications of the round function, round j starting at 8 * j.
RECURSIVE Permute(_, _, _, _)
Permute(rc, a, j, n) ==
    IF j = n THEN a
    ELSE Only({ Permute(rc, b, j + 1, n) : b \in { aes_mix4(rc, a, 8 * j) } })

\* haraka512::<n>(dst, src): the bytes written to dst.
haraka512(rc, n, src) ==
    Only({ truncstore(<< pxor(p[1], t0[1]), pxor(p[2], t0[2]),
                         pxor(p[3], t0[3]), pxor(p[4], t0[4]) >>) :
             p \in { Permute(rc, t0, 0, n) : t0 \in {Lanes(src)} },
             t0 \in {Lanes(src)} })
----------------------------------------------------------------------------
(* The buffers the callers pass *)

Fill(n, b) == Seq_([j \in 1..n |-> b])

\* msg of keyed_equals_unkeyed_with_zero_key: 00 01 02 ... 3f.
Msg == Seq_([j \in 1..64 |-> j - 1])

\* zero_key of the same test.
ZeroKey == Fill(64, 0)

\* key of test_keyed_xor_step.
Key22 == Fill(64, 34)

\* The 64-byte inputs: closed under XOR, so that distinct (state, key) pairs
\* with the same XOR exist.
Bufs == {ZeroKey, Msg, Key22, XorBytes(Msg, Key22)}

\* The inputs of the calls of the two larger specifications.
PairBufs == {Msg, Key22}

\* What dst may hold when a call starts.
PriorDst == {Fill(32, 0), Fill(32, 170)}

Callers == 1..NumCallers

\* A local that is not bound (before its let, or after the call returned).
Unbound == <<>>

NoMemo == <<>>

----------------------------------------------------------------------------
(* State *)

VARIABLES
    HARAKA_CONSTANTS,  \* the round-constant table, shared by all calls
    debug_assertions,  \* whether the build compiles debug_assert! in
    pc,                \* per caller: the statement its call is at
    N_ROUNDS,          \* per caller: the const generic of its call
    state,             \* per caller: the 64-byte state argument
    key,               \* per caller: the 64-byte key argument
    dst,               \* per caller: the 32-byte output buffer
    s,                 \* per caller: the locals s0..s3
    k,                 \* per caller: the locals k0..k3
    t,                 \* per caller: the locals t0..t3
    i,                 \* per caller: the loop variable of the round loop
    starts,            \* per caller: the start indices passed to aes_mix4 (history)
    consumed,          \* per caller: the table indices read, in order (history)
    dst0,              \* per caller: what dst held when the call started (history)
    memo               \* one earlier completed call and its digest (history)

vars == << HARAKA_CONSTANTS, debug_assertions, pc, N_ROUNDS, state, key, dst,
           s, k, t, i, starts, consumed, dst0, memo >>

globals == << HARAKA_CONSTANTS, debug_assertions >>
args    == << N_ROUNDS, state, key >>
history == << starts, consumed, dst0 >>

AtRest == {"idle", "done"}

InitWith(live) ==
    /\ HARAKA_CONSTANTS = RoundConstants
    /\ debug_assertions \in BOOLEAN
    /\ pc = [p \in Callers |-> IF p \in live THEN "idle" ELSE "off"]
    /\ N_ROUNDS = [p \in Callers |-> 0]
    /\ state = [p \in Callers |-> ZeroKey]
    /\ key = [p \in Callers |-> ZeroKey]
    /\ dst \in [Callers -> {Fill(32, 0)}]
    /\ s = [p \in Callers |-> Unbound]
    /\ k = [p \in Callers |-> Unbound]
    /\ t = [p \in Callers |-> Unbound]
    /\ i = [p \in Callers |-> 0]
    /\ starts = [p \in Callers |-> <<>>]
    /\ consumed = [p \in Callers |-> <<>>]
    /\ dst0 = dst
    /\ memo = NoMemo

\* One caller, calling again and again.
Init == InitWith({1})

\* Every caller live.
InitConc == InitWith(Callers)

----------------------------------------------------------------------------
(* haraka512_keyed, statement by statement *)

\* The caller instantiates haraka512_keyed::<n> and calls it on (d, st, ky):
\* st and ky from bufs, n up to maxN, d holding one of priors.
CallWith(p, bufs, maxN, priors) ==
    /\ pc[p] \in AtRest
    /\ \E st \in bufs, ky \in bufs, n \in 0..maxN, d \in priors :
          /\ state' = [state EXCEPT ![p] = st]
          /\ key' = [key EXCEPT ![p] = ky]
          /\ N_ROUNDS' = [N_ROUNDS EXCEPT ![p] = n]
          /\ dst' = [dst EXCEPT ![p] = d]
          /\ dst0' = [dst0 EXCEPT ![p] = d]
    /\ pc' = [pc EXCEPT ![p] = "load"]
    /\ i' = [i EXCEPT ![p] = 0]
    /\ starts' = [starts EXCEPT ![p] = <<>>]
    /\ consumed' = [consumed EXCEPT ![p] = <<>>]
    /\ UNCHANGED << globals, s, k, t, memo >>

Call(p) == CallWith(p, Bufs, MaxRounds, PriorDst)

CallDet(p) == CallWith(p, PairBufs, MaxRounds, PriorDst)

CallConc(p) == CallWith(p, PairBufs, ConcMaxRounds, {Fill(32, 170)})

\* Variant: s0..s3 are one scratch area shared by every caller.
LoadShared(p) ==
    /\ pc[p] = "load"
    /\ s' = [q \in Callers |-> Lanes(state[p])]
    /\ k' = [k EXCEPT ![p] = Lanes(key[p])]
    /\ pc' = [pc EXCEPT ![p] = "xor_key"]
    /\ UNCHANGED << globals, args, dst, t, i, history, memo >>

\* let mut s0..s3 = Simd128::read(array_ref![state, ..]); let k0..k3 likewise.
Load(p) ==
    /\ pc[p] = "load"
    /\ s' = [s EXCEPT ![p] = Lanes(state[p])]
    /\ k' = [k EXCEPT ![p] = Lanes(key[p])]
    /\ pc' = [pc EXCEPT ![p] = "xor_key"]
    /\ UNCHANGED << globals, args, dst, t, i, history, memo >>

\* Simd128::pxor(&mut a_l, &b_l) for the four lanes.
pxor4(a, b) == << pxor(a[1], b[1]), pxor(a[2], b[2]), pxor(a[3], b[3]), pxor(a[4], b[4]) >>

\* Variant: only lane 0 gets its key lane.
XorKeyLane0(p) ==
    /\ pc[p] = "xor_key"
    /\ s' = [s EXCEPT ![p] = << pxor(s[p][1], k[p][1]), s[p][2], s[p][3], s[p][4] >>]
    /\ pc' = [pc EXCEPT ![p] = "save"]
    /\ UNCHANGED << globals, args, dst, k, t, i, history, memo >>

\* Simd128::pxor(&mut s0, &k0); ... ; Simd128::pxor(&mut s3, &k3);
XorKey(p) ==
    /\ pc[p] = "xor_key"
    /\ s' = [s EXCEPT ![p] = pxor4(s[p], k[p])]
    /\ pc' = [pc EXCEPT ![p] = "save"]
    /\ UNCHANGED << globals, args, dst, k, t, i, history, memo >>

\* Variant: the copy is of the input state as read, as the doc comment has it.
SaveRaw(p) ==
    /\ pc[p] = "save"
    /\ t' = [t EXCEPT ![p] = Lanes(state[p])]
    /\ pc' = [pc EXCEPT ![p] = "assert"]
    /\ UNCHANGED << globals, args, dst, s, k, i, history, memo >>

\* let t0 = s0; let t1 = s1; let t2 = s2; let t3 = s3;
Save(p) ==
    /\ pc[p] = "save"
    /\ t' = [t EXCEPT ![p] = s[p]]
    /\ pc' = [pc EXCEPT ![p] = "assert"]
    /\ UNCHANGED << globals, args, dst, s, k, i, history, memo >>

\* Variant: the limit is exclusive.
RoundsBelowLimit(n) == n < KeyedRoundLimit

\* The condition of the debug_assert!.
RoundsWithinLimit(n) == n <= KeyedRoundLimit

\* debug_assert!(N_ROUNDS <= 5, ..): compiled out unless debug_assertions.
AssertRounds(p) ==
    /\ pc[p] = "assert"
    /\ IF debug_assertions /\ ~RoundsWithinLimit(N_ROUNDS[p])
       THEN /\ pc' = [pc EXCEPT ![p] = "panicked"]
            /\ s' = [s EXCEPT ![p] = Unbound]
            /\ k' = [k EXCEPT ![p] = Unbound]
            /\ t' = [t EXCEPT ![p] = Unbound]
       ELSE /\ pc' = [pc EXCEPT ![p] = "rounds"]
            /\ UNCHANGED << s, k, t >>
    /\ UNCHANGED << globals, args, dst, i, history, memo >>

\* Variant: the rounds start one round's worth of constants too far.
RoundStartOff(j) == ConstsPerRound * (j + 1)

\* Variant: every round starts at the head of the table.
RoundStartSame(j) == 0

\* The constant index round j starts at: the last argument of aes_mix4.
RoundStart(j) == ConstsPerRound * j

\* for i in 0..N_ROUNDS { aes_mix4(&mut s0, &mut s1, &mut s2, &mut s3, 8 * i); }
\* An index at or past the end of the table panics.
Round(p) ==
    /\ pc[p] = "rounds"
    /\ i[p] < N_ROUNDS[p]
    /\ LET c == RoundStart(i[p]) IN
         /\ starts' = [starts EXCEPT ![p] = Append(@, c)]
         /\ IF \A n \in 1..8 : RoundConstIdx(c)[n] < TableLen
            THEN /\ s' = [s EXCEPT ![p] = aes_mix4(HARAKA_CONSTANTS, s[p], c)]
                 /\ consumed' = [consumed EXCEPT ![p] = @ \o RoundConstIdx(c)]
                 /\ i' = [i EXCEPT ![p] = @ + 1]
                 /\ UNCHANGED << pc, k, t >>
            ELSE /\ pc' = [pc EXCEPT ![p] = "panicked"]
                 /\ s' = [s EXCEPT ![p] = Unbound]
                 /\ k' = [k EXCEPT ![p] = Unbound]
                 /\ t' = [t EXCEPT ![p] = Unbound]
                 /\ UNCHANGED << consumed, i >>
    /\ UNCHANGED << globals, args, dst, dst0, memo >>

\* Variant: the key lanes are fed forward instead of the copy.
FeedForwardKey(p) ==
    /\ pc[p] = "rounds"
    /\ i[p] >= N_ROUNDS[p]
    /\ s' = [s EXCEPT ![p] = pxor4(s[p], k[p])]
    /\ pc' = [pc EXCEPT ![p] = "truncstore"]
    /\ UNCHANGED << globals, args, dst, k, t, i, history, memo >>

\* The loop is over: Simd128::pxor(&mut s0, &t0); ... ; Simd128::pxor(&mut s3, &t3);
FeedForward(p) ==
    /\ pc[p] = "rounds"
    /\ i[p] >= N_ROUNDS[p]
    /\ s' = [s EXCEPT ![p] = pxor4(s[p], t[p])]
    /\ pc' = [pc EXCEPT ![p] = "truncstore"]
    /\ UNCHANGED << globals, args, dst, k, t, i, history, memo >>

\* Variant: the digest is XORed into what dst holds.
TruncStoreInto(p) ==
    /\ pc[p] = "truncstore"
    /\ dst' = [dst EXCEPT ![p] = XorBytes(@, truncstore(s[p]))]
    /\ pc' = [pc EXCEPT ![p] = "done"]
    /\ s' = [s EXCEPT ![p] = Unbound]
    /\ k' = [k EXCEPT ![p] = Unbound]
    /\ t' = [t EXCEPT ![p] = Unbound]
    /\ UNCHANGED << globals, args, i, history, memo >>

\* truncstore(dst, &s0, &s1, &s2, &s3); and the call returns.
TruncStore(p) ==
    /\ pc[p] = "truncstore"
    /\ dst' = [dst EXCEPT ![p] = truncstore(s[p])]
    /\ pc' = [pc EXCEPT ![p] = "done"]
    /\ s' = [s EXCEPT ![p] = Unbound]
    /\ k' = [k EXCEPT ![p] = Unbound]
    /\ t' = [t EXCEPT ![p] = Unbound]
    /\ UNCHANGED << globals, args, i, history, memo >>

\* History only: keep the arguments and the digest of a call that returned.
Remember(p) ==
    /\ pc[p] = "done"
    /\ memo = NoMemo
    /\ memo' = [n |-> N_ROUNDS[p], state |-> state[p], key |-> key[p], out |-> dst[p]]
    /\ UNCHANGED << globals, pc, args, dst, s, k, t, i, history >>

\* A step of a running call.
Step(p) ==
    \/ Load(p)
    \/ XorKey(p)
    \/ Save(p)
    \/ AssertRounds(p)
    \/ Round(p)
    \/ FeedForward(p)
    \/ TruncStore(p)

Next == \E p \in Callers : Call(p) \/ Step(p)

NextDet == \E p \in Callers : CallDet(p) \/ Step(p) \/ Remember(p)

NextConc == \E p \in Callers : CallConc(p) \/ Step(p)

\* One caller making call after call.
Spec == Init /\ [][Next]_vars

\* The same, a running call always running on.
SpecLive == Init /\ [][Next]_vars /\ \A p \in Callers : WF_vars(Step(p))

\* The same, with one earlier call remembered.
SpecDet == Init /\ [][NextDet]_vars

\* The callers calling concurrently, their statements interleaved.
SpecConc == InitConc /\ [][NextConc]_vars
----------------------------------------------------------------------------
(* Reference values the properties compare the calls with *)

\* The four lanes written back at offsets 0, 16, 32, 48 (test_keyed_xor_step).
WriteLanes(a) ==
    Simd128_write(a[1]) \o Simd128_write(a[2]) \o Simd128_write(a[3]) \o Simd128_write(a[4])

\* haraka512_keyed::<n>(dst, st, ky) run from its first statement to its last
\* with nothing in between: the bytes written to dst.
haraka512_keyed(rc, n, st, ky) ==
    Only({ truncstore(pxor4(p, s0)) :
             p \in { Permute(rc, s0, 0, n) : s0 \in {pxor4(Lanes(st), Lanes(ky))} },
             s0 \in {pxor4(Lanes(st), Lanes(ky))} })

\* The lanes of state XOR key, the XOR taken on the bytes.
KeyedInput(p) == Lanes(XorBytes(state[p], key[p]))

Supported(p) == N_ROUNDS[p] <= 5

\* The indices 8 * j .. 8 * j + 7 of round j.
RoundRange(j) == (8 * j)..(8 * j + 7)

Range(q) == {q[n] : n \in 1..Len(q)}

MemoIs(p) ==
    /\ memo # NoMemo
    /\ memo.n = N_ROUNDS[p]

----------------------------------------------------------------------------
(* Properties *)

\* C1: a keyed call with N_ROUNDS <= 5 and an all-zero key writes to dst the
\* 32 bytes haraka512 with the same round count writes for the same state.
C1_ZeroKeyEquivalence ==
    \A p \in Callers :
        (pc[p] = "done" /\ key[p] = ZeroKey /\ Supported(p))
            => dst[p] = haraka512(HARAKA_CONSTANTS, N_ROUNDS[p], state[p])

C1_Witness ==
    \E p \in Callers :
        /\ pc[p] = "done" /\ key[p] = ZeroKey /\ state[p] = Msg
        /\ N_ROUNDS[p] = 5 /\ dst0[p] # Fill(32, 0)

C4_KeyXorStep ==
    \A p \in Callers :
        /\ pc[p] = "xor_key" =>
              /\ WriteLanes(s[p]) = state[p]
              /\ WriteLanes(k[p]) = key[p]
        /\ pc[p] = "save" =>
              /\ WriteLanes(s[p]) = XorBytes(state[p], key[p])
              /\ \A j \in 1..64 : WriteLanes(s[p])[j] = Xor8(state[p][j], key[p][j])
              /\ key[p] = ZeroKey => WriteLanes(s[p]) = state[p]

C4_Witness ==
    \E p \in Callers :
        /\ pc[p] = "save" /\ state[p] = Msg /\ key[p] = Key22
        /\ WriteLanes(s[p])[1] = 34 /\ WriteLanes(s[p])[64] = 29

\* C5: with the assertion compiled in, a call with N_ROUNDS > 5 stops at it,
\* no round applied and dst as it was; a call with N_ROUNDS <= 5 never panics
\* and, once at the assertion, gets to return with dst written.
C5_RoundLimit ==
    /\ [](\A p \in Callers :
            /\ (debug_assertions /\ ~Supported(p)) =>
                  /\ pc[p] \notin {"rounds", "truncstore", "done"}
                  /\ starts[p] = <<>> /\ consumed[p] = <<>>
                  /\ pc[p] # "off" => dst[p] = dst0[p]
            /\ Supported(p) => pc[p] # "panicked")
    /\ \A p \in Callers :
          (pc[p] = "assert" /\ Supported(p)) ~> (pc[p] = "done" /\ Supported(p))

C5_Witness ==
    \E p \in Callers :
        /\ pc[p] = "panicked" /\ debug_assertions /\ N_ROUNDS[p] = 6
        /\ dst[p] = Fill(32, 170)

\* C6: in a call with N_ROUNDS <= 5 every index a round reads, or sets out to
\* read, is in [0, 40), below the length of the table.
C6_ConstantBounds ==
    \A p \in Callers :
        Supported(p) =>
            /\ \A n \in 1..Len(consumed[p]) :
                  consumed[p][n] >= 0 /\ consumed[p][n] < 40 /\ consumed[p][n] < TableLen
            /\ \A n \in 1..Len(starts[p]) : \A m \in 1..8 :
                  RoundConstIdx(starts[p][n])[m] \in 0..39
            /\ pc[p] # "panicked"

C6_Witness ==
    \E p \in Callers :
        /\ pc[p] = "done" /\ N_ROUNDS[p] = 5
        /\ 39 \in Range(consumed[p])

\* C7: a call with N_ROUNDS <= 5 and the state and key of an earlier call
\* writes the digest the earlier call wrote, whatever dst held and whatever
\* was called in between.
C7_Determinism ==
    \A p \in Callers :
        (pc[p] = "done" /\ Supported(p) /\ MemoIs(p)
            /\ memo.state = state[p] /\ memo.key = key[p])
            => dst[p] = memo.out

C7_Witness ==
    \E p \in Callers :
        /\ pc[p] = "done" /\ N_ROUNDS[p] = 5 /\ MemoIs(p)
        /\ memo.state = state[p] /\ memo.key = key[p]
        /\ dst0[p] = Fill(32, 170) /\ state[p] # key[p]

\* C8: with the statements of concurrent calls interleaved, each call that
\* returns has written the digest it writes when run alone, and the table of
\* round constants is what it was at the start.
C8_Reentrancy ==
    /\ HARAKA_CONSTANTS = RoundConstants
    /\ \A p \in Callers :
          pc[p] = "done" =>
              dst[p] = haraka512_keyed(RoundConstants, N_ROUNDS[p], state[p], key[p])

C8_Witness ==
    \E p, q \in Callers :
        /\ p # q /\ pc[p] = "done" /\ pc[q] = "rounds" /\ i[q] = 1
        /\ N_ROUNDS[p] = 2 /\ N_ROUNDS[q] = 2
        /\ state[p] # state[q] /\ key[p] # key[q]

\* C9: the rounds of a call are applied after the key XOR and before the
\* feed-forward, round j at start index 8 * j for j = 0, 1, ..., N - 1 and no
\* other; the rounds read disjoint index ranges, [0, 8 * N) in all.
C9_RoundSchedule ==
    \A p \in Callers :
        /\ pc[p] \in {"load", "xor_key", "save", "assert"} => starts[p] = <<>>
        /\ pc[p] = "rounds" => (Len(starts[p]) = i[p] /\ i[p] <= N_ROUNDS[p])
        /\ pc[p] \in {"truncstore", "done"} => Len(starts[p]) = N_ROUNDS[p]
        /\ pc[p] \in {"rounds", "truncstore", "done"} =>
              /\ \A n \in 1..Len(starts[p]) : starts[p][n] = 8 * (n - 1)
              /\ Len(consumed[p]) = 8 * Len(starts[p])
              /\ \A n \in 1..Len(starts[p]) :
                    {consumed[p][m] : m \in (8 * n - 7)..(8 * n)} = RoundRange(n - 1)
              /\ \A a, b \in 1..Len(starts[p]) :
                    a # b => RoundRange(a - 1) \cap RoundRange(b - 1) = {}
              /\ Range(consumed[p]) = 0..(8 * Len(starts[p]) - 1)
              /\ Cardinality(Range(consumed[p])) = Len(consumed[p])

C9_Witness ==
    \E p \in Callers :
        /\ pc[p] = "done" /\ N_ROUNDS[p] = 5
        /\ starts[p] = <<0, 8, 16, 24, 32>>

====
